---- MODULE Spec2Model ----
(***************************************************************************)
(* State machine of the Workbench component of the trace viewer            *)
(* (packages/trace-viewer/src/ui/workbench.tsx): the React state cells,    *)
(* the props, the memoized derived values and the callbacks handed to the  *)
(* panels.                                                                 *)
(*                                                                         *)
(* An optional value (T | undefined) is a set with at most one element:    *)
(* {} is undefined, {v} is v.  An optional string (callId) is the string   *)
(* itself, with Undefined for undefined.                                   *)
(***************************************************************************)
EXTENDS Integers, Sequences, FiniteSets

VARIABLES
  model,                      \* prop model?: MultiTraceModel
  showSourcesFirst,           \* prop showSourcesFirst
  revealSource,               \* prop revealSource
  annotations,                \* prop annotations
  selectedCallId,             \* useState, line 58
  revealedError,              \* useState, line 59
  revealedAttachment,         \* useState, line 60
  highlightedCallId,          \* useState, line 61
  highlightedEntry,           \* useState, line 62
  highlightedConsoleMessage,  \* useState, line 63
  selectedPropertiesTab,      \* useSetting('propertiesTab'), line 65
  isInspecting,               \* useState, line 66
  highlightedLocator,         \* useState, line 67
  selectedTime,               \* useState, line 68
  renderedIsInspecting,       \* the isInspecting value the setIsInspecting closure of the last render holds
  pendingEffects,             \* useEffect callbacks scheduled by the last commit and not run yet
  renderError,                \* the render function threw (the component is gone)
  batched                     \* handlers that ran since the last render

props == <<model, showSourcesFirst, revealSource, annotations>>
cells == <<selectedCallId, revealedError, revealedAttachment, highlightedCallId,
           highlightedEntry, highlightedConsoleMessage, selectedPropertiesTab,
           isInspecting, highlightedLocator, selectedTime>>
vars == <<model, showSourcesFirst, revealSource, annotations, selectedCallId, revealedError,
          revealedAttachment, highlightedCallId, highlightedEntry,
          highlightedConsoleMessage, selectedPropertiesTab, isInspecting,
          highlightedLocator, selectedTime, renderedIsInspecting,
          pendingEffects, renderError, batched>>

----------------------------------------------------------------------------
(* Bounds *)

\* longest action sequence of a model the resolver is applied to
MaxActions == 4
\* longest action sequence of a model the store is driven with
MaxStoreActions == 2
\* longest annotations list
MaxAnnotations == 2
\* most handlers that run between two renders
MaxBatch == 2

----------------------------------------------------------------------------
(* Values *)

Undefined == "undefined"

CallIdNames == <<"call@1", "call@2", "call@3", "call@4", "call@5", "call@6">>
CallId(i) == CallIdNames[i]
CallIds(n) == {CallId(i) : i \in 1..n}

\* JavaScript truthiness of a string | undefined
Truthy(s) == s # Undefined /\ s # ""

Min(S) == CHOOSE x \in S : \A y \in S : x <= y

RECURSIVE SetToSeq(_)
SetToSeq(S) == IF S = {} THEN <<>> ELSE <<Min(S)>> \o SetToSeq(S \ {Min(S)})

Range(s) == {s[i] : i \in 1..Len(s)}

\* action sequences of at most n actions with pairwise distinct callIds
ActionSeqs(n, apiNames) ==
  UNION { { [i \in 1..Len(ids) |-> [callId |-> CallId(ids[i]), apiName |-> f[i]]] :
              f \in [1..Len(ids) -> apiNames] } :
          ids \in {SetToSeq(S) : S \in SUBSET (1..n)} }

\* the sequences of the first k <= n recorded actions (call@1 .. call@k)
RecordedActionSeqs(n, apiNames) ==
  {s \in ActionSeqs(n, apiNames) : \A i \in 1..Len(s) : s[i].callId = CallId(i)}

\* a model: its actions and the position of the action failedAction() reports (0: none)
ModelsOf(seqs, withFailed) ==
  UNION { { [present |-> TRUE, actions |-> s, failed |-> k] :
              k \in IF withFailed THEN 0..Len(s) ELSE {0} } : s \in seqs }

NoModel == [present |-> FALSE, actions |-> <<>>, failed |-> 0]

ResolverModels == ModelsOf(ActionSeqs(MaxActions, {"click", "After Hooks"}), TRUE) \cup {NoModel}
StoreModels == ModelsOf(RecordedActionSeqs(MaxStoreActions, {"click"}), FALSE) \cup {NoModel}

\* model?.actions (an absent model has none)
actionsOf(m) == IF m.present THEN m.actions ELSE <<>>

\* model?.failedAction()
failedAction(m) == IF m.present /\ m.failed # 0 THEN {m.actions[m.failed]} ELSE {}

\* the errors the errors tab lists: one per action, and one of the file / test
ErrorsOf(m) ==
  {[message |-> "error", action |-> {}]} \cup
  {[message |-> "error", action |-> {a}] : a \in Range(actionsOf(m))}

Attachments == {"trace.zip"}
Locators == {"getByRole('button')"}
Entries == {"GET /"}
ConsoleEntries == {"log"}
Times == {[minimum |-> 5, maximum |-> 5]}

BaseTabIds == <<"inspector", "call", "log", "errors", "console", "network", "attachments">>
StoredTabIds == Range(BaseTabIds) \cup {"source", Undefined}

\* useSetting(name, defaultValue): the stored value, the default when nothing is stored
useSetting(stored, defaultValue) == IF stored = Undefined THEN defaultValue ELSE stored

----------------------------------------------------------------------------
(* Derived values (useMemo) *)

\* Array.prototype.find(a => a.callId === callId)
find(actions, callId) ==
  LET I == {i \in 1..Len(actions) : actions[i].callId = callId}
  IN IF I = {} THEN {} ELSE {actions[Min(I)]}

highlightedActionOf(m, hlCallId) == IF m.present THEN find(m.actions, hlCallId) ELSE {}

\* the index (from 1) the loop of lines 104-110 leaves
lastNonAfterHooksIndex(actions) ==
  LET I == {i \in 2..Len(actions) : actions[i].apiName = "After Hooks"}
  IN IF I = {} THEN Len(actions) ELSE Min(I) - 1

\* the failed action takes precedence over the selection
selectedActionOf_failedFirst(m, selCallId) ==
  LET action == IF Truthy(selCallId) /\ m.present THEN find(m.actions, selCallId) ELSE {}
  IN IF failedAction(m) # {} THEN failedAction(m)
     ELSE IF action # {} THEN action
     ELSE IF m.present /\ Len(m.actions) # 0 THEN {m.actions[lastNonAfterHooksIndex(m.actions)]}
     ELSE {}

\* a selection that does not resolve ends the resolution
selectedActionOf_staleIsNone(m, selCallId) ==
  LET action == IF Truthy(selCallId) /\ m.present THEN find(m.actions, selCallId) ELSE {}
  IN IF Truthy(selCallId) THEN action
     ELSE IF failedAction(m) # {} THEN failedAction(m)
     ELSE IF m.present /\ Len(m.actions) # 0 THEN {m.actions[lastNonAfterHooksIndex(m.actions)]}
     ELSE {}

\* without the default to the last action
selectedActionOf_noDefault(m, selCallId) ==
  LET action == IF Truthy(selCallId) /\ m.present THEN find(m.actions, selCallId) ELSE {}
  IN IF action # {} THEN action ELSE failedAction(m)

selectedActionOf(m, selCallId) ==
  LET action == IF Truthy(selCallId) /\ m.present THEN find(m.actions, selCallId) ELSE {}
  IN IF action # {} THEN action
     ELSE IF failedAction(m) # {} THEN failedAction(m)
     ELSE IF m.present /\ Len(m.actions) # 0 THEN {m.actions[lastNonAfterHooksIndex(m.actions)]}
     ELSE {}

\* selectedAction || highlightedAction
activeActionOf_selectedFirst(highlighted, selected) ==
  IF selected # {} THEN selected ELSE highlighted

activeActionOf(highlighted, selected) == IF highlighted # {} THEN highlighted ELSE selected

highlightedAction == highlightedActionOf(model, highlightedCallId)
selectedAction == selectedActionOf(model, selectedCallId)
activeAction == activeActionOf(highlightedAction, selectedAction)

----------------------------------------------------------------------------
(* The state cells as one record, and the callbacks as functions on it *)

Store ==
  [selectedCallId |-> selectedCallId, revealedError |-> revealedError,
   revealedAttachment |-> revealedAttachment, highlightedCallId |-> highlightedCallId,
   highlightedEntry |-> highlightedEntry,
   highlightedConsoleMessage |-> highlightedConsoleMessage,
   selectedPropertiesTab |-> selectedPropertiesTab, isInspecting |-> isInspecting,
   highlightedLocator |-> highlightedLocator, selectedTime |-> selectedTime]

\* action?.callId
callIdOf(action) == IF action = {} THEN Undefined ELSE (CHOOSE a \in action : TRUE).callId

\* sets the call id and leaves the revealed error alone
setSelectedAction_keepsError(s, action) ==
  [s EXCEPT !.selectedCallId = callIdOf(action)]

setSelectedAction(s, action) ==
  [s EXCEPT !.selectedCallId = callIdOf(action), !.revealedError = {}]

\* the hovered action also becomes the selected one
setHighlightedAction_alsoSelects(s, action) ==
  [s EXCEPT !.highlightedCallId = callIdOf(action), !.selectedCallId = callIdOf(action)]

setHighlightedAction(s, action) ==
  [s EXCEPT !.highlightedCallId = callIdOf(action)]

\* resets the revealed error only
modelEffect_keepsTime(s) ==
  [s EXCEPT !.revealedError = {}]

\* resets the time range only
modelEffect_keepsError(s) ==
  [s EXCEPT !.selectedTime = {}]

modelEffect(s) ==
  [s EXCEPT !.selectedTime = {}, !.revealedError = {}]

onActionSelected(s, action) ==
  setHighlightedAction(setSelectedAction(s, action), {})

\* leaves the inspecting flag alone
selectPropertiesTab_keepsInspecting(s, tab) ==
  [s EXCEPT !.selectedPropertiesTab = tab]

selectPropertiesTab(s, tab) ==
  LET s1 == [s EXCEPT !.selectedPropertiesTab = tab]
  IN IF tab # "inspector" THEN [s1 EXCEPT !.isInspecting = FALSE] ELSE s1

\* sets the flag without selecting the inspector tab
setIsInspecting_noTab(s, captured, value) ==
  [s EXCEPT !.isInspecting = value]

\* captured: the isInspecting of the render that created the callback
setIsInspecting(s, captured, value) ==
  LET s1 == IF ~captured /\ value THEN selectPropertiesTab(s, "inspector") ELSE s
  IN [s1 EXCEPT !.isInspecting = value]

locatorPicked(s, locator) ==
  selectPropertiesTab([s EXCEPT !.highlightedLocator = locator], "inspector")

revealAttachment(s, attachment) ==
  [selectPropertiesTab(s, "attachments") EXCEPT !.revealedAttachment = {attachment}]

revealSourceEffect(s, reveal) ==
  IF reveal THEN selectPropertiesTab(s, "source") ELSE s

\* leaves the selected tab alone
revealInSource_noTab(s, error) ==
  IF error.action # {} THEN setSelectedAction(s, error.action)
  ELSE [s EXCEPT !.revealedError = {error}]

revealInSource(s, error) ==
  LET s1 == IF error.action # {} THEN setSelectedAction(s, error.action)
            ELSE [s EXCEPT !.revealedError = {error}]
  IN selectPropertiesTab(s1, "source")

revealConsole(s) == selectPropertiesTab(s, "console")

\* line 263 reads sourceTab, which no declaration binds: the render throws
renderThrows(sourcesFirst) == sourcesFirst

----------------------------------------------------------------------------
(* The properties tabs (lines 166-266) *)

AnnotationLists == {[i \in 1..n |-> [type |-> "issue"]] : n \in 0..MaxAnnotations}
OptionalAnnotations == {{}} \cup {{list} : list \in AnnotationLists}

\* a tab with no count of its own; the counts of the errors, console, network
\* and attachments tabs are sizes of models this file only reads
baseTab(id) == [id |-> id, count |-> {}]

annotationsTab(list) == [id |-> "annotations", count |-> {Len(list)}]

\* the annotations tab is added for a non-empty list only
tabsOf_nonEmptyOnly(ann, sourcesFirst) ==
  LET base == [i \in 1..Len(BaseTabIds) |-> baseTab(BaseTabIds[i])]
      list == CHOOSE l \in ann : TRUE
      all == IF ann # {} /\ Len(list) # 0 THEN Append(base, annotationsTab(list)) ELSE base
  IN [threw |-> renderThrows(sourcesFirst),
      tabs |-> IF renderThrows(sourcesFirst) THEN <<>> ELSE all]

\* lines 242-266: the list, or no list when the showSourcesFirst branch throws
tabsOf(ann, sourcesFirst) ==
  LET base == [i \in 1..Len(BaseTabIds) |-> baseTab(BaseTabIds[i])]
      all == IF ann # {} THEN Append(base, annotationsTab(CHOOSE l \in ann : TRUE)) ELSE base
  IN [threw |-> renderThrows(sourcesFirst),
      tabs |-> IF renderThrows(sourcesFirst) THEN <<>> ELSE all]

tabs == tabsOf(annotations, showSourcesFirst)

\* the ids the tabbed pane offers
TabIds == {tabs.tabs[i].id : i \in 1..Len(tabs.tabs)}

----------------------------------------------------------------------------
(* Initial state: the first render *)

InitCells ==
  /\ selectedCallId = Undefined
  /\ revealedError = {}
  /\ revealedAttachment = {}
  /\ highlightedCallId = Undefined
  /\ highlightedEntry = {}
  /\ highlightedConsoleMessage = {}
  /\ selectedPropertiesTab \in
       {useSetting(stored, IF showSourcesFirst THEN "source" ELSE "call") : stored \in StoredTabIds}
  /\ isInspecting = FALSE
  /\ highlightedLocator = ""
  /\ selectedTime = {}
  /\ renderedIsInspecting = FALSE
  /\ batched = 0
  /\ renderError = renderThrows(showSourcesFirst)
  /\ pendingEffects = IF renderThrows(showSourcesFirst) THEN {} ELSE {"model", "revealSource"}

Init ==
  /\ model \in StoreModels
  /\ showSourcesFirst \in BOOLEAN
  /\ revealSource \in BOOLEAN
  /\ annotations = {}
  /\ InitCells

----------------------------------------------------------------------------
(* Steps *)

Apply(s) ==
  /\ selectedCallId' = s.selectedCallId
  /\ revealedError' = s.revealedError
  /\ revealedAttachment' = s.revealedAttachment
  /\ highlightedCallId' = s.highlightedCallId
  /\ highlightedEntry' = s.highlightedEntry
  /\ highlightedConsoleMessage' = s.highlightedConsoleMessage
  /\ selectedPropertiesTab' = s.selectedPropertiesTab
  /\ isInspecting' = s.isInspecting
  /\ highlightedLocator' = s.highlightedLocator
  /\ selectedTime' = s.selectedTime

\* the component is mounted and the effects of the last commit have run
Ready == ~renderError /\ pendingEffects = {}

\* an event handler runs, its state updates are committed and the component renders again
Dispatch(s) ==
  /\ Ready
  /\ Apply(s)
  /\ renderedIsInspecting' = s.isInspecting
  /\ UNCHANGED <<props, pendingEffects, renderError, batched>>

ActionList_onSelected(action) == Dispatch(onActionSelected(Store, {action}))

ActionList_onHighlighted(action) == Dispatch(setHighlightedAction(Store, action))

NetworkTab_onEntryHovered(entry) == Dispatch([Store EXCEPT !.highlightedEntry = entry])

ConsoleTab_onEntryHovered(entry) == Dispatch([Store EXCEPT !.highlightedConsoleMessage = entry])

setSelectedTime(time) == Dispatch([Store EXCEPT !.selectedTime = time])

TabbedPane_setSelectedTab(tab) == Dispatch(selectPropertiesTab(Store, tab))

SnapshotTabsView_setIsInspecting(value) ==
  Dispatch(setIsInspecting(Store, renderedIsInspecting, value))

SnapshotTabsView_setHighlightedLocator(locator) == Dispatch(locatorPicked(Store, locator))

InspectorTab_setHighlightedLocator(locator) ==
  Dispatch([Store EXCEPT !.highlightedLocator = locator])

ActionList_revealAttachment(attachment) == Dispatch(revealAttachment(Store, attachment))

ActionList_revealConsole == Dispatch(revealConsole(Store))

ErrorsTab_revealInSource(error) == Dispatch(revealInSource(Store, error))

\* the parent renders the component with another model
ReplaceModel(m) ==
  /\ Ready
  /\ model' = m
  /\ pendingEffects' = {"model"}
  /\ UNCHANGED <<showSourcesFirst, revealSource, annotations, cells, renderedIsInspecting, renderError, batched>>

SetRevealSource(value) ==
  /\ Ready
  /\ value # revealSource
  /\ revealSource' = value
  /\ pendingEffects' = {"revealSource"}
  /\ UNCHANGED <<model, showSourcesFirst, annotations, cells, renderedIsInspecting, renderError, batched>>

SetShowSourcesFirst ==
  /\ Ready
  /\ ~showSourcesFirst
  /\ showSourcesFirst' = TRUE
  /\ renderError' = renderThrows(TRUE)
  /\ UNCHANGED <<model, revealSource, annotations, cells, renderedIsInspecting, pendingEffects, batched>>

\* the parent renders the component with other annotations, or without
SetAnnotations(value) ==
  /\ Ready
  /\ value # annotations
  /\ annotations' = value
  /\ UNCHANGED <<model, showSourcesFirst, revealSource, cells, renderedIsInspecting,
                 pendingEffects, renderError, batched>>

\* useEffect(..., [model]), lines 86-89
ModelEffect ==
  /\ ~renderError
  /\ "model" \in pendingEffects
  /\ Apply(modelEffect(Store))
  /\ renderedIsInspecting' = isInspecting
  /\ pendingEffects' = pendingEffects \ {"model"}
  /\ UNCHANGED <<props, renderError, batched>>

\* useEffect(..., [revealSource, selectPropertiesTab]), lines 152-155; effects run in source order
RevealSourceEffect ==
  /\ ~renderError
  /\ pendingEffects = {"revealSource"}
  /\ Apply(revealSourceEffect(Store, revealSource))
  /\ renderedIsInspecting' = revealSourceEffect(Store, revealSource).isInspecting
  /\ pendingEffects' = {}
  /\ UNCHANGED <<props, renderError, batched>>

\* the arguments the panels pass: they render the current model
ListedActions == Range(actionsOf(model))
OptionalActions == {{}} \cup {{a} : a \in ListedActions}
OptionalEntries == {{}} \cup {{e} : e \in Entries}
OptionalConsoleEntries == {{}} \cup {{e} : e \in ConsoleEntries}
OptionalTimes == {{}} \cup {{t} : t \in Times}

Next ==
  \/ \E action \in ListedActions : ActionList_onSelected(action)
  \/ \E action \in OptionalActions : ActionList_onHighlighted(action)
  \/ \E entry \in OptionalEntries : NetworkTab_onEntryHovered(entry)
  \/ \E entry \in OptionalConsoleEntries : ConsoleTab_onEntryHovered(entry)
  \/ \E time \in OptionalTimes : setSelectedTime(time)
  \/ \E tab \in TabIds : TabbedPane_setSelectedTab(tab)
  \/ \E value \in BOOLEAN : SnapshotTabsView_setIsInspecting(value)
  \/ \E locator \in Locators : SnapshotTabsView_setHighlightedLocator(locator)
  \/ \E locator \in Locators \cup {""} : InspectorTab_setHighlightedLocator(locator)
  \/ \E attachment \in Attachments : ActionList_revealAttachment(attachment)
  \/ ActionList_revealConsole
  \/ \E error \in ErrorsOf(model) : ErrorsTab_revealInSource(error)
  \/ \E m \in StoreModels : ReplaceModel(m)
  \/ \E value \in BOOLEAN : SetRevealSource(value)
  \/ SetShowSourcesFirst
  \/ ModelEffect
  \/ RevealSourceEffect

Spec == Init /\ [][Next]_vars

----------------------------------------------------------------------------
(* The resolver on its own: every model of at most MaxActions actions, with *)
(* every selection a previous model may have left behind                    *)

InitResolve ==
  /\ model \in ResolverModels
  /\ showSourcesFirst = FALSE
  /\ revealSource = FALSE
  /\ annotations = {}
  /\ batched = 0
  /\ selectedCallId \in CallIds(MaxActions) \cup {Undefined}
  /\ revealedError = {}
  /\ revealedAttachment = {}
  /\ highlightedCallId = Undefined
  /\ highlightedEntry = {}
  /\ highlightedConsoleMessage = {}
  /\ selectedPropertiesTab = "call"
  /\ isInspecting = FALSE
  /\ highlightedLocator = ""
  /\ selectedTime = {}
  /\ renderedIsInspecting = FALSE
  /\ renderError = FALSE
  /\ pendingEffects = {}

NextResolve ==
  \/ \E action \in ListedActions : ActionList_onSelected(action)
  \/ \E action \in OptionalActions : ActionList_onHighlighted(action)

SpecResolve == InitResolve /\ [][NextResolve]_vars

----------------------------------------------------------------------------
(* Properties *)

\* C1: in every reachable state, isInspecting implies that the selected
\* properties tab is the inspector tab.
C1_InspectingImpliesInspectorTab ==
  isInspecting => selectedPropertiesTab = "inspector"

\* inspecting was turned on after an action was selected and a locator picked
C1_Witness ==
  /\ isInspecting
  /\ selectedCallId # Undefined
  /\ highlightedLocator # ""

\* C2: a selectedCallId that is the callId of an action of the model resolves
\* to exactly that action, whatever the failed action and the position.
C2_MatchingSelectionWins ==
  \A i \in 1..Len(actionsOf(model)) :
    actionsOf(model)[i].callId = selectedCallId => selectedAction = {actionsOf(model)[i]}

\* the selected action is the last one, an After Hooks action, and another action failed
C2_Witness ==
  /\ Len(actionsOf(model)) >= 3
  /\ actionsOf(model)[Len(actionsOf(model))].callId = selectedCallId
  /\ actionsOf(model)[Len(actionsOf(model))].apiName = "After Hooks"
  /\ model.failed = 1
  /\ selectedAction = {actionsOf(model)[Len(actionsOf(model))]}

NoActionHasCallId(callId) == \A a \in Range(actionsOf(model)) : a.callId # callId

\* C3: when selectedCallId is unset or matches no action of the model and the
\* model reports a failed action, the selected action is that failed action.
C3_FailedActionWhenNoSelection ==
  (model.present /\ model.failed # 0 /\ NoActionHasCallId(selectedCallId))
    => selectedAction = {model.actions[model.failed]}

\* a stale selection, and a failed action that is not the last action
C3_Witness ==
  /\ model.present
  /\ selectedCallId # Undefined
  /\ NoActionHasCallId(selectedCallId)
  /\ model.failed # 0
  /\ model.failed < Len(model.actions)
  /\ selectedAction = {model.actions[model.failed]}

NoSelectionNoFailure ==
  /\ model.present
  /\ selectedCallId = Undefined
  /\ model.failed = 0
  /\ Len(model.actions) > 0

\* C4: with no selection and no failed action, when the last action is named
\* After Hooks the second-to-last action is selected, or the only action when
\* After Hooks is the only action.
C4_AfterHooksLast ==
  (NoSelectionNoFailure /\ model.actions[Len(model.actions)].apiName = "After Hooks")
    => selectedAction =
         {model.actions[IF Len(model.actions) > 1 THEN Len(model.actions) - 1 ELSE 1]}

\* C5: with no selection and no failed action, when the last action is not
\* named After Hooks the last action is selected, whatever the names of the
\* earlier actions.
C5_LastActionOtherwise ==
  (NoSelectionNoFailure /\ model.actions[Len(model.actions)].apiName # "After Hooks")
    => selectedAction = {model.actions[Len(model.actions)]}

ActionsWithCallId(callId) == {a \in Range(actionsOf(model)) : a.callId = callId}

\* C6: the active action is the action of the model that highlightedCallId
\* names when there is one, and the selected action otherwise.
C6_ActiveIsHighlightedElseSelected ==
  activeAction = IF ActionsWithCallId(highlightedCallId) # {}
                 THEN ActionsWithCallId(highlightedCallId)
                 ELSE selectedAction

\* an action is hovered while another one is selected
C6_Witness ==
  /\ highlightedAction # {}
  /\ selectedAction # {}
  /\ highlightedAction # selectedAction
  /\ activeAction = highlightedAction

HoverEvent ==
  \/ \E action \in OptionalActions : ActionList_onHighlighted(action)
  \/ \E entry \in OptionalEntries : NetworkTab_onEntryHovered(entry)
  \/ \E entry \in OptionalConsoleEntries : ConsoleTab_onEntryHovered(entry)

\* C7: a hover event leaves selectedCallId and the selected action as they
\* were, and setHighlightedAction changes no state cell but highlightedCallId,
\* which becomes the callId of the hovered action (undefined for none).
C7_HoverKeepsSelection ==
  [][ /\ HoverEvent => (selectedCallId' = selectedCallId /\ selectedAction' = selectedAction)
      /\ \A action \in OptionalActions :
           ActionList_onHighlighted(action) =>
             /\ highlightedCallId' = callIdOf(action)
             /\ UNCHANGED <<selectedCallId, revealedError, revealedAttachment,
                            highlightedEntry, highlightedConsoleMessage,
                            selectedPropertiesTab, isInspecting, highlightedLocator,
                            selectedTime>> ]_vars

\* an action, a network entry and a console entry are hovered while another action is selected
C7_Witness ==
  /\ highlightedCallId # Undefined
  /\ selectedCallId # Undefined
  /\ highlightedCallId # selectedCallId
  /\ highlightedEntry # {}
  /\ highlightedConsoleMessage # {}

\* C8: setIsInspecting(true) while not inspecting selects the inspector tab
\* and sets the flag, whatever tab was selected; setIsInspecting(false) clears
\* the flag and changes nothing else.
C8_SetIsInspecting ==
  [][ \A value \in BOOLEAN :
        SnapshotTabsView_setIsInspecting(value) =>
          /\ (~isInspecting /\ value) => (selectedPropertiesTab' = "inspector" /\ isInspecting')
          /\ ~value =>
               /\ ~isInspecting'
               /\ UNCHANGED <<selectedCallId, revealedError, revealedAttachment,
                              highlightedCallId, highlightedEntry,
                              highlightedConsoleMessage, selectedPropertiesTab,
                              highlightedLocator, selectedTime>> ]_vars

\* inspecting is on, and an attachment was revealed before (the tab was attachments)
C8_Witness ==
  /\ isInspecting
  /\ selectedPropertiesTab = "inspector"
  /\ revealedAttachment # {}

RevealsAttachment ==
  \A attachment \in Attachments :
    ActionList_revealAttachment(attachment) =>
      (revealedAttachment' = {attachment} /\ selectedPropertiesTab' = "attachments")

\* C9 as stated: revealing any error leaves revealedError equal to it and the
\* source tab selected; revealing an attachment leaves revealedAttachment equal
\* to it and the attachments tab selected.
C9_RevealSetsField ==
  [][ /\ \A error \in ErrorsOf(model) :
           ErrorsTab_revealInSource(error) =>
             (revealedError' = {error} /\ selectedPropertiesTab' = "source")
      /\ RevealsAttachment ]_vars

\* C9, amended: revealing an error with no action leaves revealedError equal
\* to it; revealing an error of an action selects that action and leaves
\* revealedError undefined; both select the source tab.  Revealing an
\* attachment leaves revealedAttachment equal to it and the attachments tab
\* selected.
C9_RevealSetsFieldOrSelects ==
  [][ /\ \A error \in ErrorsOf(model) :
           ErrorsTab_revealInSource(error) =>
             /\ selectedPropertiesTab' = "source"
             /\ IF error.action = {}
                THEN revealedError' = {error}
                ELSE revealedError' = {} /\ selectedCallId' = callIdOf(error.action)
      /\ RevealsAttachment ]_vars

\* an error of the file was revealed after an attachment
C9_Witness ==
  /\ revealedError # {}
  /\ selectedPropertiesTab = "source"
  /\ revealedAttachment # {}

\* a step that calls setSelectedAction, or that runs the effect of a new model
SwitchesContext ==
  \/ \E action \in ListedActions : ActionList_onSelected(action)
  \/ \E error \in ErrorsOf(model) : error.action # {} /\ ErrorsTab_revealInSource(error)
  \/ ModelEffect

\* C10 as stated: once the selected action is switched or the new model is
\* processed, revealedError and revealedAttachment are both undefined.
C10_SwitchClearsReveals ==
  [][ SwitchesContext => (revealedError' = {} /\ revealedAttachment' = {}) ]_vars

\* C10, amended: once the selected action is switched or the new model is
\* processed, revealedError is undefined; revealedAttachment is not reset, it
\* keeps the value it had.
C10_SwitchClearsRevealedError ==
  [][ SwitchesContext => (revealedError' = {} /\ revealedAttachment' = revealedAttachment) ]_vars

\* an action was selected under a model loaded since; the attachment revealed before is still there
C10_Witness ==
  /\ selectedCallId # Undefined
  /\ NoActionHasCallId(selectedCallId)
  /\ revealedError = {}
  /\ revealedAttachment # {}
  /\ pendingEffects = {}


\* C11: setSelectedAction(action | none) yields selectedCallId equal to the
\* callId of the action (undefined for none) and revealedError undefined,
\* whatever error was revealed; so does every step that calls it.
C11_SetSelectedAction ==
  [][ /\ \A action \in OptionalActions :
           /\ setSelectedAction(Store, action).revealedError = {}
           /\ setSelectedAction(Store, action).selectedCallId =
                IF action = {} THEN Undefined
                ELSE CHOOSE id \in {a.callId : a \in action} : TRUE
      /\ \A action \in ListedActions :
           ActionList_onSelected(action) =>
             (selectedCallId' = action.callId /\ revealedError' = {})
      /\ \A action \in ListedActions :
           ErrorsTab_revealInSource([message |-> "error", action |-> {action}]) =>
             (selectedCallId' = action.callId /\ revealedError' = {}) ]_vars

\* an action is selected while a time range is selected, and no error is revealed
C11_Witness ==
  /\ selectedCallId # Undefined
  /\ revealedError = {}
  /\ selectedTime # {}
  /\ pendingEffects = {}


----------------------------------------------------------------------------
(* Model replacement on its own.  React runs the effects of every commit,   *)
(* hence the fairness on the effect of a new model.                         *)

NextReplace ==
  \/ \E m \in StoreModels : ReplaceModel(m)
  \/ \E time \in OptionalTimes : setSelectedTime(time)
  \/ \E error \in ErrorsOf(model) : ErrorsTab_revealInSource(error)
  \/ ModelEffect
  \/ RevealSourceEffect

SpecReplace == Init /\ [][NextReplace]_vars /\ WF_vars(ModelEffect)

\* C12: whenever a new model was rendered and its effect is pending, a state
\* is eventually reached where the effect has run and selectedTime and
\* revealedError are both undefined.
C12_ReplacementResets ==
  ("model" \in pendingEffects)
    ~> ("model" \notin pendingEffects /\ selectedTime = {} /\ revealedError = {})

\* a model was replaced while a time range was selected and an error revealed
C12_Witness ==
  /\ "model" \in pendingEffects
  /\ selectedTime # {}
  /\ revealedError # {}


----------------------------------------------------------------------------
(* Boundaries (useMemo, lines 268-277) *)

DefaultEndTime == 30000
PadDivisor == 20

\* times of a model, in ms
TimeValues == {0, 50, 100, 29999, 30000, 30001, 31500, 60000}

BoundaryModels ==
  {[present |-> TRUE, actions |-> <<>>, failed |-> 0, startTime |-> st, endTime |-> et] :
     st \in TimeValues, et \in TimeValues} \cup {NoModel}

\* model?.startTime, model?.endTime
startTimeOf(m) == IF m.present THEN {m.startTime} ELSE {}
endTimeOf(m) == IF m.present THEN {m.endTime} ELSE {}

\* value || fallback, for a number | undefined: undefined and 0 are falsy
orElse(value, fallback) ==
  IF value = {} \/ value = {0} THEN fallback ELSE CHOOSE v \in value : TRUE

\* line 269
rawBoundaries(m) ==
  [minimum |-> orElse(startTimeOf(m), 0), maximum |-> orElse(endTimeOf(m), DefaultEndTime)]

\* resets the maximum only
correctedBoundaries_maximumOnly(b) ==
  IF b.minimum > b.maximum THEN [minimum |-> b.minimum, maximum |-> DefaultEndTime] ELSE b

\* lines 270-273
correctedBoundaries(b) ==
  IF b.minimum > b.maximum THEN [minimum |-> 0, maximum |-> DefaultEndTime] ELSE b

\* a time in ms as a number of 1/PadDivisor ms, the unit that keeps the padding exact
Ticks(ms) == PadDivisor * ms

\* pads by a twentieth of the maximum
paddedBoundaries_ofMaximum(b) ==
  [minimum |-> Ticks(b.minimum), maximum |-> Ticks(b.maximum) + b.maximum]

\* line 275: maximum += (maximum - minimum) / 20; the result is in ticks
paddedBoundaries(b) ==
  [minimum |-> Ticks(b.minimum), maximum |-> Ticks(b.maximum) + (b.maximum - b.minimum)]

boundariesOf(m) == paddedBoundaries(correctedBoundaries(rawBoundaries(m)))

boundaries == boundariesOf(model)

InitBoundaries ==
  /\ model \in BoundaryModels
  /\ showSourcesFirst = FALSE
  /\ revealSource = FALSE
  /\ annotations = {}
  /\ batched = 0
  /\ selectedCallId = Undefined
  /\ revealedError = {}
  /\ revealedAttachment = {}
  /\ highlightedCallId = Undefined
  /\ highlightedEntry = {}
  /\ highlightedConsoleMessage = {}
  /\ selectedPropertiesTab = "call"
  /\ isInspecting = FALSE
  /\ highlightedLocator = ""
  /\ selectedTime = {}
  /\ renderedIsInspecting = FALSE
  /\ renderError = FALSE
  /\ pendingEffects = {}

NextBoundaries ==
  \/ \E m \in BoundaryModels : ReplaceModel(m)
  \/ ModelEffect

SpecBoundaries == InitBoundaries /\ [][NextBoundaries]_vars

\* C13: when the start time is greater than the end time, both taken after
\* defaulting, the boundary is exactly {0, 31500}.
C13_InvertedGivesDefaultWindow ==
  rawBoundaries(model).minimum > rawBoundaries(model).maximum
    => boundaries = [minimum |-> Ticks(0), maximum |-> Ticks(31500)]

\* a model that starts at 100 and ends at 50
C13_Witness ==
  /\ model.present
  /\ model.endTime # 0
  /\ model.startTime > model.endTime
  /\ boundaries = [minimum |-> Ticks(0), maximum |-> Ticks(31500)]

\* C14: for every model, a missing one included, the boundary has minimum <=
\* maximum, its minimum is the minimum after correction, and its maximum is
\* the maximum after correction plus a twentieth of their difference.
C14_PaddedBoundary ==
  LET raw == rawBoundaries(model)
      inverted == raw.minimum > raw.maximum
      lo == IF inverted THEN 0 ELSE raw.minimum
      hi == IF inverted THEN 30000 ELSE raw.maximum
  IN /\ boundaries.minimum <= boundaries.maximum
     /\ boundaries.minimum = 20 * lo
     /\ boundaries.maximum = 20 * hi + (hi - lo)

\* a model that starts after 0 and ends later: the padding is less than a twentieth of the end
C14_Witness ==
  /\ model.present
  /\ 0 < model.startTime
  /\ model.startTime < model.endTime
  /\ boundaries.minimum = Ticks(model.startTime)
  /\ boundaries.maximum > Ticks(model.endTime)
  /\ boundaries.maximum < Ticks(model.endTime) + model.endTime

\* C17: the raw boundary is the start and end time of the model whenever there
\* is a model, the value 0 included, and 0 and 30000 only without a model; a
\* model that ends at 0 and starts later is inverted and yields {0, 31500}.
C17_DefaultsOnlyWhenAbsent ==
  /\ rawBoundaries(model) =
       IF model.present
       THEN [minimum |-> model.startTime, maximum |-> model.endTime]
       ELSE [minimum |-> 0, maximum |-> 30000]
  /\ (model.present /\ model.endTime = 0 /\ model.startTime > 0)
       => boundaries = [minimum |-> Ticks(0), maximum |-> Ticks(31500)]


----------------------------------------------------------------------------
(* The tabs and the selected tab, under every configuration *)

InitTabs ==
  /\ model \in StoreModels
  /\ showSourcesFirst \in BOOLEAN
  /\ revealSource \in BOOLEAN
  /\ annotations \in OptionalAnnotations
  /\ InitCells

NextTabs ==
  \/ \E tab \in TabIds : TabbedPane_setSelectedTab(tab)
  \/ \E value \in BOOLEAN : SnapshotTabsView_setIsInspecting(value)
  \/ \E attachment \in Attachments : ActionList_revealAttachment(attachment)
  \/ ActionList_revealConsole
  \/ \E error \in ErrorsOf(model) : ErrorsTab_revealInSource(error)
  \/ \E value \in OptionalAnnotations : SetAnnotations(value)
  \/ \E value \in BOOLEAN : SetRevealSource(value)
  \/ SetShowSourcesFirst
  \/ ModelEffect
  \/ RevealSourceEffect

SpecTabs == InitTabs /\ [][NextTabs]_vars

TabIdSeq == [i \in 1..Len(tabs.tabs) |-> tabs.tabs[i].id]

SevenBaseIds == <<"inspector", "call", "log", "errors", "console", "network", "attachments">>

\* C15: without showSourcesFirst, the tabs are exactly the 7 base tabs in
\* order when annotations is undefined; for any annotations list, the empty
\* one included, there is exactly one more tab, the last one, whose count is
\* the length of the list.
C15_AnnotationsTab ==
  ~showSourcesFirst =>
    /\ ~tabs.threw
    /\ SubSeq(TabIdSeq, 1, 7) = SevenBaseIds
    /\ annotations = {} => Len(tabs.tabs) = 7
    /\ \A list \in annotations :
         /\ Len(tabs.tabs) = 8
         /\ tabs.tabs[8].id = "annotations"
         /\ tabs.tabs[8].count = {Len(list)}

\* an empty annotations list: the tab is there, with count 0, and it is the selected one
C15_Witness ==
  /\ annotations = {<<>>}
  /\ Len(tabs.tabs) = 8
  /\ selectedPropertiesTab = "annotations"

\* C16: with showSourcesFirst the list is assembled without failure, the
\* source tab is in second position, and the other tabs follow in their
\* original order.
C16_SourceTabSecond ==
  showSourcesFirst =>
    /\ ~tabs.threw
    /\ ~renderError
    /\ Len(TabIdSeq) >= 2
    /\ TabIdSeq[2] = "source"
    /\ [i \in 1..(Len(TabIdSeq) - 1) |-> TabIdSeq[IF i = 1 THEN 1 ELSE i + 1]]
         = IF annotations = {} THEN SevenBaseIds ELSE Append(SevenBaseIds, "annotations")

\* C18: in every state of the mounted component, the selected properties tab
\* is the id of one of the assembled tabs.
C18_SelectedTabIsListed ==
  ~renderError => selectedPropertiesTab \in TabIds


----------------------------------------------------------------------------
(* Handlers that run in one batch: the state updates of all of them are     *)
(* committed by one render, and each handler is the callback of the last    *)
(* render, with the isInspecting that render saw.                           *)

DispatchBatched(s) ==
  /\ Ready
  /\ batched < MaxBatch
  /\ Apply(s)
  /\ batched' = batched + 1
  /\ UNCHANGED <<props, renderedIsInspecting, pendingEffects, renderError>>

Batched_selectPropertiesTab(tab) == DispatchBatched(selectPropertiesTab(Store, tab))

Batched_setIsInspecting(value) ==
  DispatchBatched(setIsInspecting(Store, renderedIsInspecting, value))

\* the render that commits the batch and creates the callbacks anew
Render ==
  /\ Ready
  /\ batched > 0
  /\ batched' = 0
  /\ renderedIsInspecting' = isInspecting
  /\ UNCHANGED <<props, cells, pendingEffects, renderError>>

NextBatched ==
  \/ \E tab \in TabIds : Batched_selectPropertiesTab(tab)
  \/ \E value \in BOOLEAN : Batched_setIsInspecting(value)
  \/ Render
  \/ ModelEffect
  \/ RevealSourceEffect

SpecBatched == Init /\ [][NextBatched]_vars

\* C19: also when several handlers run between two renders, every committed
\* state has the inspector tab selected if isInspecting is set.
C19_BatchedInspectingImpliesInspectorTab ==
  batched = 0 => (isInspecting => selectedPropertiesTab = "inspector")


----------------------------------------------------------------------------
(* Selection, hover and model replacement, over models whose actions differ *)
(* in content as well as in callId                                          *)

SelectModels ==
  ModelsOf(ActionSeqs(MaxStoreActions, {"click", "After Hooks"}), TRUE) \cup {NoModel}

InitSelect ==
  /\ model \in SelectModels
  /\ showSourcesFirst = FALSE
  /\ revealSource = FALSE
  /\ annotations = {}
  /\ InitCells

NextSelect ==
  \/ \E action \in ListedActions : ActionList_onSelected(action)
  \/ \E action \in OptionalActions : ActionList_onHighlighted(action)
  \/ \E m \in SelectModels : ReplaceModel(m)
  \/ ModelEffect
  \/ RevealSourceEffect

SpecSelect == InitSelect /\ [][NextSelect]_vars

\* C20: the selected action and the active action are each none or one
\* action of the current model, and each is none exactly when the current
\* model is missing or has no actions.
C20_ResolvedActionsAreCurrent ==
  /\ selectedAction \subseteq ListedActions
  /\ activeAction \subseteq ListedActions
  /\ Cardinality(selectedAction) <= 1
  /\ Cardinality(activeAction) <= 1
  /\ selectedAction = {} <=> ListedActions = {}
  /\ activeAction = {} <=> ListedActions = {}

\* the selected and the hovered call ids come from a model replaced since;
\* the current model has actions and none failed
C20_Witness ==
  /\ pendingEffects = {}
  /\ selectedCallId # Undefined
  /\ highlightedCallId # Undefined
  /\ NoActionHasCallId(selectedCallId)
  /\ NoActionHasCallId(highlightedCallId)
  /\ model.present
  /\ model.failed = 0
  /\ selectedAction # {}
  /\ activeAction = selectedAction

====
